---- MODULE Spec2Model ----
(***************************************************************************)
(* A model of nolitsa/data.py: the generators falpha, henon, ikeda,        *)
(* lorenz, mackey_glass and roessler.                                      *)
(*                                                                         *)
(* Numbers.  Python floats are modelled as decimal fixed-point numbers     *)
(* with Scale units per 1.0; every arithmetic operation rounds to the      *)
(* nearest unit, as a float operation rounds to the nearest float.  Ratios *)
(* that the code truncates with int() are computed exactly first.          *)
(*                                                                         *)
(* Arrays.  A numpy array is a function on 0 .. n-1, so that an index of   *)
(* the model is the index of the code.  A buffer made by np.empty has no   *)
(* defined contents: wr is the set of slots the code has assigned, and a   *)
(* read of any other slot yields an arbitrary element of Garbage.  Every   *)
(* invocation is run twice in lockstep (x / out and xB / outB) on the same *)
(* parameters and the same random draws; the two runs differ only in what  *)
(* their unassigned slots happen to hold.                                  *)
(***************************************************************************)
EXTENDS Integers, Sequences, FiniteSets, TLC

VARIABLES pc, fn, par, rnd, loc, x, xB, wr, i, rd, out, outB, status

vars == <<pc, fn, par, rnd, loc, x, xB, wr, i, rd, out, outB, status>>

(***************************************************************************)
(* Bounds of the exploration.                                              *)
(***************************************************************************)
MaxLen == 4
MaxDiscard == 2
MaxN == 2

(***************************************************************************)
(* Fixed-point arithmetic.                                                 *)
(***************************************************************************)
Scale == 10 * 10 * 10

Abs(a) == IF a < 0 THEN -a ELSE a

Sgn(a) == IF a < 0 THEN -1 ELSE IF a > 0 THEN 1 ELSE 0

\* a / b rounded to the nearest integer (b # 0), halves away from zero.
RDiv(a, b) == Sgn(a) * Sgn(b) * ((2 * Abs(a) + Abs(b)) \div (2 * Abs(b)))

\* Product and quotient of two fixed-point numbers.
FMul(a, b) == RDiv(a * b, Scale)

FDiv(a, b) == RDiv(a * Scale, b)

\* Python's int() of the exact quotient a / b: truncation toward zero.
PyInt(a, b) == Sgn(a) * Sgn(b) * (Abs(a) \div Abs(b))

\* u ** e for a fixed-point u and a whole exponent e >= 0.
RECURSIVE FPow(_, _)
FPow(u, e) == IF e = 0 THEN Scale ELSE FMul(u, FPow(u, e - 1))

\* The largest r in lo .. hi with r * r <= v (lo * lo <= v).
RECURSIVE ISqrtIn(_, _, _)
ISqrtIn(v, lo, hi) ==
    IF lo >= hi THEN lo
    ELSE LET mid == (lo + hi + 1) \div 2
         IN  IF mid * mid <= v THEN ISqrtIn(v, mid, hi) ELSE ISqrtIn(v, lo, mid - 1)

\* np.sqrt of a fixed-point v >= 0.
FSqrt(v) == ISqrtIn(v * Scale, 0, 40000)

TwoPi == 6283

\* The sum term - term*r^2/((k+1)(k+2)) + ... of a sine or cosine series.
RECURSIVE Series(_, _, _)
Series(term, k, r) ==
    IF term = 0 \/ k > 24 THEN 0
    ELSE term + Series(-RDiv(FMul(FMul(term, r), r), (k + 1) * (k + 2)), k + 2, r)

\* The angle brought into [-pi, pi].
Reduce(phi) == phi - TwoPi * RDiv(phi, TwoPi)

FCos(phi) == Series(Scale, 0, Reduce(phi))

FSin(phi) == Series(Reduce(phi), 1, Reduce(phi))

(***************************************************************************)
(* Arrays and Python's indexing.                                           *)
(***************************************************************************)
ALen(a) == Cardinality(DOMAIN a)

Arr(s) == [j \in 0 .. (Len(s) - 1) |-> s[j + 1]]

Full(n, v) == [j \in 0 .. (n - 1) |-> v]

\* a[k] with Python's negative indices: -1 is the last slot.
Wrap(k, n) == IF k < 0 THEN k + n ELSE k

\* The indices a[start::step] selects in an array of n slots (step # 0).
SliceIdx(n, start, step) ==
    LET s0 == IF start < 0 THEN start + n ELSE start
        lo == IF step > 0
              THEN (IF s0 < 0 THEN 0 ELSE IF s0 >= n THEN n ELSE s0)
              ELSE (IF s0 < 0 THEN -1 ELSE IF s0 >= n THEN n - 1 ELSE s0)
        cnt == IF step > 0
               THEN (IF lo < n THEN ((n - lo - 1) \div step) + 1 ELSE 0)
               ELSE (IF lo > -1 THEN (lo \div (-step)) + 1 ELSE 0)
    IN  [k \in 0 .. (cnt - 1) |-> lo + k * step]

Range(a) == {a[k] : k \in DOMAIN a}

Take(a, idx) == [k \in DOMAIN idx |-> a[idx[k]]]

\* The value read from slot k of buffer a: the slot's own once assigned,
\* and otherwise whatever g the memory held.
Read(a, k, g) == IF k \in wr THEN a[k] ELSE g

Garbage == {0, 700}

\* What the slots ks may hold that the code has not assigned: nothing to
\* choose when all of them are assigned.
Held(ks) == IF ks \subseteq wr THEN {0} ELSE Garbage

(***************************************************************************)
(* The optional initial condition x0 and Python's "not x0".                *)
(***************************************************************************)
NoX0 == [kind |-> "none", v |-> <<>>]

Tup(s) == [kind |-> "tuple", v |-> s]

NdArr(s) == [kind |-> "ndarray", v |-> s]

\* "true": not x0 holds and the default is drawn; "false": x0 is used;
\* "raise": bool() of an array of several elements raises ValueError.
NotX0Wrong(x0) == IF x0.kind = "none" \/ x0.v \in {<<>>, <<0>>, <<0, 0>>} THEN "true" ELSE "false"
NotX0(x0) ==
    CASE x0.kind = "none" -> "true"
      [] x0.kind = "tuple" -> IF Len(x0.v) = 0 THEN "true" ELSE "false"
      [] x0.kind = "ndarray" ->
            IF Len(x0.v) > 1 THEN "raise"
            ELSE IF x0.v = <<0>> THEN "true" ELSE "false"

\* Whether numpy can assign a value of n entries to a target of m entries.
Broadcasts(n, m) == n = m \/ n = 1

\* The value of n entries as assigned to a target of m entries.
Spread(s, m) == [j \in 0 .. (m - 1) |-> IF Len(s) = 1 THEN s[1] ELSE s[j + 1]]

\* np.random.random(k): every draw is one of RandSet.
RandSet == {0, 500}

Draws(k) == [1 .. k -> RandSet]

(***************************************************************************)
(* henon and ikeda.                                                        *)
(***************************************************************************)
Lengths == 1 .. MaxLen

Discards == 0 .. MaxDiscard

X0Dim2 == {NoX0, Tup(<<>>), Tup(<<0, 0>>), Tup(<<1000, 0>>), Tup(<<500, 500>>),
           Tup(<<300>>), Tup(<<100, 200, 300>>), NdArr(<<100, 200>>), NdArr(<<300>>)}

\* (0.0, 0.9) + 0.01 * (-1 + 2 * r)
HenonDefault(r) == <<0 + RDiv(-Scale + 2 * r[1], 100), 900 + RDiv(-Scale + 2 * r[2], 100)>>

\* 0.1 * (-1 + 2 * r)
IkedaDefault(r) == <<RDiv(-Scale + 2 * r[1], 10), RDiv(-Scale + 2 * r[2], 10)>>

\* (1 - a * x^2 + b * y, x)
HenonMapWrong(p, a, b) == <<p[2], Scale - FMul(a, FMul(p[1], p[1])) + FMul(b, p[2])>>
HenonMap(p, a, b) == <<Scale - FMul(a, FMul(p[1], p[1])) + FMul(b, p[2]), p[1]>>

IkedaMap(p, c) ==
    LET phi == c.beta - FDiv(c.alpha, Scale + FMul(p[1], p[1]) + FMul(p[2], p[2]))
    IN  <<c.gamma + FMul(c.mu, FMul(p[1], FCos(phi)) - FMul(p[2], FSin(phi))),
          FMul(c.mu, FMul(p[1], FSin(phi)) + FMul(p[2], FCos(phi)))>>

HenonConsts == {[a |-> 1400, b |-> 300]}

IkedaConsts == {[alpha |-> 6000, beta |-> 400, gamma |-> 1000, mu |-> 900]}

MapConsts(name) == IF name = "henon" THEN HenonConsts ELSE IkedaConsts

MapDefault(name, r) == IF name = "henon" THEN HenonDefault(r) ELSE IkedaDefault(r)

Idle == pc = "idle"

Fail(e) ==
    /\ pc' = "done"
    /\ status' = e
    /\ out' = <<>>
    /\ outB' = <<>>

\* The first lines of henon and ikeda: the buffer and its slot 0.
MapCall(name) ==
    /\ Idle
    /\ \E L \in Lengths, D \in Discards, x0 \in X0Dim2, c \in MapConsts(name) :
         /\ fn' = name
         /\ par' = [length |-> L, discard |-> D, x0 |-> x0, c |-> c]
         /\ loc' = [size |-> L + D, stride |-> 1]
         /\ rd' = {}
         /\ CASE NotX0(x0) = "raise" ->
                   /\ Fail("ValueError")
                   /\ UNCHANGED <<rnd, x, xB, wr, i>>
              [] NotX0(x0) = "true" ->
                   \E r \in Draws(2) :
                     /\ rnd' = r
                     /\ x' = [Full(L + D, <<0, 0>>) EXCEPT ![0] = MapDefault(name, r)]
                     /\ xB' = x'
                     /\ wr' = {0}
                     /\ i' = 1
                     /\ pc' = "loop"
                     /\ UNCHANGED <<out, outB, status>>
              [] NotX0(x0) = "false" /\ ~Broadcasts(Len(x0.v), 2) ->
                   /\ Fail("ValueError")
                   /\ UNCHANGED <<rnd, x, xB, wr, i>>
              [] OTHER ->
                   /\ x' = [Full(L + D, <<0, 0>>) EXCEPT ![0] = <<Spread(x0.v, 2)[0], Spread(x0.v, 2)[1]>>]
                   /\ xB' = x'
                   /\ wr' = {0}
                   /\ i' = 1
                   /\ pc' = "loop"
                   /\ UNCHANGED <<rnd, out, outB, status>>

HenonCall == MapCall("henon")

IkedaCall == MapCall("ikeda")

\* One pass of "for i in range(1, length + discard)".
HenonStep ==
    /\ pc = "loop" /\ fn = "henon" /\ i < loc.size
    /\ \E g \in Held({i - 1}), gB \in Held({i - 1}) :
         /\ x' = [x EXCEPT ![i] = HenonMap(Read(x, i - 1, <<g, g>>), par.c.a, par.c.b)]
         /\ xB' = [xB EXCEPT ![i] = HenonMap(Read(xB, i - 1, <<gB, gB>>), par.c.a, par.c.b)]
    /\ wr' = wr \cup {i}
    /\ rd' = {i - 1}
    /\ i' = i + 1
    /\ UNCHANGED <<pc, fn, par, rnd, loc, out, outB, status>>

IkedaStep ==
    /\ pc = "loop" /\ fn = "ikeda" /\ i < loc.size
    /\ \E g \in Held({i - 1}), gB \in Held({i - 1}) :
         /\ x' = [x EXCEPT ![i] = IkedaMap(Read(x, i - 1, <<g, g>>), par.c)]
         /\ xB' = [xB EXCEPT ![i] = IkedaMap(Read(xB, i - 1, <<gB, gB>>), par.c)]
    /\ wr' = wr \cup {i}
    /\ rd' = {i - 1}
    /\ i' = i + 1
    /\ UNCHANGED <<pc, fn, par, rnd, loc, out, outB, status>>

\* return x[discard:]
MapReturnIdx == SliceIdx(loc.size, par.discard, 1)

MapReturn ==
    /\ pc = "loop" /\ fn \in {"henon", "ikeda"} /\ i >= loc.size
    /\ \E g \in Held(Range(MapReturnIdx)), gB \in Held(Range(MapReturnIdx)) :
         /\ out' = [k \in DOMAIN MapReturnIdx |-> Read(x, MapReturnIdx[k], <<g, g>>)]
         /\ outB' = [k \in DOMAIN MapReturnIdx |-> Read(xB, MapReturnIdx[k], <<gB, gB>>)]
    /\ loc' = loc @@ ("idx" :> MapReturnIdx)
    /\ pc' = "done"
    /\ status' = "ok"
    /\ UNCHANGED <<fn, par, rnd, x, xB, wr, i, rd>>

(***************************************************************************)
(* mackey_glass.                                                           *)
(***************************************************************************)
Ns == 1 .. MaxN

Ramp(k) == [j \in 1 .. k |-> 400 + 100 * j]

X0DimN(n) == {NoX0, Tup(<<600>>), Tup(Ramp(n)), Tup(Ramp(n + 1)), NdArr(Ramp(n))}

MGConsts == {[a |-> 200, b |-> 100, c |-> 10]}

\* The pairs (tau, sample).
MGSampling == {<<1000, 1000>>, <<1000, 1900>>, <<2000, 1000>>, <<1000, -1000>>, <<2000, -1000>>}

\* 0.5 + 0.05 * (-1 + 2 * r), slot by slot
MGDefault(r) == [j \in DOMAIN r |-> 500 + RDiv(-Scale + 2 * r[j], 20)]

\* A = (2n - b tau) / (2n + b tau) and B = a tau / (2n + b tau)
MGCoefA(n, b, tau) == FDiv(2 * n * Scale - FMul(b, tau), 2 * n * Scale + FMul(b, tau))

MGCoefB(n, a, b, tau) == FDiv(FMul(a, tau), 2 * n * Scale + FMul(b, tau))

\* u / (1 + u ** c)
MGf(u, c) == FDiv(u, Scale + FPow(u, c))

\* sample = int(n * sample / tau)
MGStride(n, sample, tau) == PyInt(n * sample, tau)

\* The slots read by the step that assigns x[i + 1], as the code writes them.
MGReads(k, n) == {k, k - n, k - n + 1}

\* The lines of mackey_glass before its loop.
MGCall ==
    /\ Idle
    /\ \E L \in Lengths, D \in Discards, n \in Ns, ts \in MGSampling, c \in MGConsts :
       \E x0 \in X0DimN(n) :
         LET sub == MGStride(n, ts[2], ts[1])
             grids == n * D + sub * L
             m == IF n < grids THEN n ELSE grids
         IN  /\ fn' = "mackey_glass"
             /\ par' = [length |-> L, discard |-> D, x0 |-> x0, c |-> c, n |-> n,
                        tau |-> ts[1], sample |-> ts[2]]
             /\ loc' = [size |-> grids, stride |-> sub,
                        A |-> MGCoefA(n, c.b, ts[1]), B |-> MGCoefB(n, c.a, c.b, ts[1])]
             /\ rd' = {}
             /\ CASE grids < 0 \/ NotX0(x0) = "raise" ->
                       /\ Fail("ValueError")
                       /\ UNCHANGED <<rnd, x, xB, wr, i>>
                  [] grids >= 0 /\ NotX0(x0) = "true" /\ ~Broadcasts(n, m) ->
                       /\ Fail("ValueError")
                       /\ UNCHANGED <<rnd, x, xB, wr, i>>
                  [] grids >= 0 /\ NotX0(x0) = "true" /\ Broadcasts(n, m) ->
                       \E r \in Draws(n) :
                         /\ rnd' = r
                         /\ x' = [j \in 0 .. (grids - 1) |->
                                    IF j < m THEN Spread(MGDefault(r), m)[j] ELSE 0]
                         /\ xB' = x'
                         /\ wr' = 0 .. (m - 1)
                         /\ i' = n - 1
                         /\ pc' = "loop"
                         /\ UNCHANGED <<out, outB, status>>
                  [] grids >= 0 /\ NotX0(x0) = "false" /\ ~Broadcasts(Len(x0.v), m) ->
                       /\ Fail("ValueError")
                       /\ UNCHANGED <<rnd, x, xB, wr, i>>
                  [] OTHER ->
                       /\ x' = [j \in 0 .. (grids - 1) |->
                                  IF j < m THEN Spread(x0.v, m)[j] ELSE 0]
                       /\ xB' = x'
                       /\ wr' = 0 .. (m - 1)
                       /\ i' = n - 1
                       /\ pc' = "loop"
                       /\ UNCHANGED <<rnd, out, outB, status>>

\* The slots of the buffer those reads reach.
MGSlots == {Wrap(k, loc.size) : k \in MGReads(i, par.n)}

\* x[i + 1] of one buffer, g being what an unassigned slot holds.
MGNext(a, g) ==
    LET n == par.n
        u == Read(a, Wrap(i - n, loc.size), g)
        v == Read(a, Wrap(i - n + 1, loc.size), g)
    IN  FMul(loc.A, Read(a, Wrap(i, loc.size), g)) + FMul(loc.B, MGf(u, par.c.c) + MGf(v, par.c.c))

\* One pass of "for i in range(n - 1, grids - 1)".
MGStep ==
    /\ pc = "loop" /\ fn = "mackey_glass" /\ i < loc.size - 1
    /\ \E g \in Held(MGSlots), gB \in Held(MGSlots) :
         /\ x' = [x EXCEPT ![i + 1] = MGNext(x, g)]
         /\ xB' = [xB EXCEPT ![i + 1] = MGNext(xB, gB)]
    /\ wr' = wr \cup {i + 1}
    /\ rd' = MGReads(i, par.n)
    /\ i' = i + 1
    /\ UNCHANGED <<pc, fn, par, rnd, loc, out, outB, status>>

\* return x[n * discard::sample]
MGReturnIdx == SliceIdx(loc.size, par.n * par.discard, loc.stride)

MGReturn ==
    /\ pc = "loop" /\ fn = "mackey_glass" /\ i >= loc.size - 1
    /\ IF loc.stride = 0
       THEN /\ Fail("ValueError")
            /\ UNCHANGED loc
       ELSE /\ \E g \in Held(Range(MGReturnIdx)), gB \in Held(Range(MGReturnIdx)) :
                 /\ out' = [k \in DOMAIN MGReturnIdx |-> Read(x, MGReturnIdx[k], g)]
                 /\ outB' = [k \in DOMAIN MGReturnIdx |-> Read(xB, MGReturnIdx[k], gB)]
            /\ loc' = loc @@ ("idx" :> MGReturnIdx)
            /\ pc' = "done"
            /\ status' = "ok"
    /\ UNCHANGED <<fn, par, rnd, x, xB, wr, i, rd>>

(***************************************************************************)
(* lorenz and roessler.  A time is an exact fraction <<p, q>> of Scale     *)
(* units, p / q, so that the spacing of the grid is not blurred by         *)
(* rounding.                                                               *)
(***************************************************************************)
X0Dim3 == {NoX0, Tup(<<>>), Tup(<<1000, 1000, 1000>>), Tup(<<300>>), Tup(<<100, 200>>),
           Tup(<<100, 200, 300, 400>>), NdArr(<<100, 200, 300>>)}

LorenzConsts == {[sigma |-> 10000, beta |-> 2667, rho |-> 28000]}

RoesslerConsts == {[a |-> 200, b |-> 200, c |-> 5700]}

\* The pairs (step, sample).
FlowSampling == {<<10, 30>>, <<10, 19>>, <<20, 30>>, <<10, 10>>, <<10, 5>>, <<10, -20>>}

\* (0.0, -0.01, 9.0) + 0.25 * (-1 + 2 * r)
LorenzDefault(r) == <<0 + RDiv(-Scale + 2 * r[1], 4), -10 + RDiv(-Scale + 2 * r[2], 4),
                      9000 + RDiv(-Scale + 2 * r[3], 4)>>

\* (-9.0, 0.0, 0.0) + 0.25 * (-1 + 2 * r)
RoesslerDefault(r) == <<-9000 + RDiv(-Scale + 2 * r[1], 4), 0 + RDiv(-Scale + 2 * r[2], 4),
                        0 + RDiv(-Scale + 2 * r[3], 4)>>

\* _lorenz and _roessler; either raises IndexError on a state of fewer
\* than three entries.
Deriv(name, c, s) ==
    IF Len(s) < 3 THEN <<>>
    ELSE IF name = "lorenz"
    THEN <<FMul(c.sigma, s[2] - s[1]), FMul(s[1], c.rho - s[3]) - s[2],
           FMul(s[1], s[2]) - FMul(c.beta, s[3])>>
    ELSE <<-(s[2] + s[3]), s[1] + FMul(c.a, s[2]), c.b + FMul(s[3], s[1] - c.c)>>

\* sample = int(sample / step)
FlowStrideWrong(sample, step) == RDiv(sample, step)
FlowStride(sample, step) == PyInt(sample, step)

\* np.linspace(0, stop, num), num >= 0: the end point stop is the last of
\* the num points.
LinspaceWrong(stop, num) == [j \in 0 .. (num - 1) |-> <<j * stop, num>>]
Linspace(stop, num) ==
    [j \in 0 .. (num - 1) |-> IF num = 1 THEN <<0, 1>> ELSE <<j * stop, num - 1>>]

\* The states of odeint at t[0], t[1], ...: y0 at t[0], and from one grid
\* point to the next one step of the integrator (here the explicit Euler
\* step).
RECURSIVE OdeRun(_, _, _, _)
OdeRun(name, c, t, acc) ==
    IF Len(acc) >= ALen(t) THEN acc
    ELSE LET j == Len(acc)
             s == acc[j]
             d == Deriv(name, c, s)
             h == t[j][1] - t[j - 1][1]
         IN  OdeRun(name, c, t,
                    Append(acc, [k \in 1 .. 3 |-> s[k] + RDiv(d[k] * h, t[j][2] * Scale)]))

\* odeint(func, y0, t): the states as an array; it fails when func fails
\* on y0 or returns an array of another size than y0.
Odeint(name, c, y0, t) ==
    IF Len(Deriv(name, c, y0)) # Len(y0) THEN [ok |-> FALSE, ys |-> <<>>]
    ELSE IF ALen(t) = 0 THEN [ok |-> TRUE, ys |-> <<>>]
    ELSE [ok |-> TRUE, ys |-> Arr(OdeRun(name, c, t, <<y0>>))]

FlowConsts(name) == IF name = "lorenz" THEN LorenzConsts ELSE RoesslerConsts

FlowDefault(name, r) == IF name = "lorenz" THEN LorenzDefault(r) ELSE RoesslerDefault(r)

\* The lines of lorenz and roessler up to the return statement.  lorenz
\* looks at x0 before it makes the grid, roessler after.
FlowCall(name) ==
    /\ Idle
    /\ \E L \in Lengths, D \in Discards, x0 \in X0Dim3, ss \in FlowSampling,
          c \in FlowConsts(name) :
         LET stride == FlowStride(ss[2], ss[1])
             num == stride * (L + D)
             gridFails == num < 0
             x0Fails == NotX0(x0) = "raise"
         IN  /\ fn' = name
             /\ par' = [length |-> L, discard |-> D, x0 |-> x0, c |-> c,
                        step |-> ss[1], sample |-> ss[2]]
             /\ rd' = {}
             /\ UNCHANGED <<x, xB, wr, i>>
             /\ \E r \in IF NotX0(x0) = "true" /\ (name = "lorenz" \/ ~gridFails)
                       THEN Draws(3) ELSE {<<>>} :
                  /\ rnd' = r
                  /\ IF gridFails \/ x0Fails
                     THEN /\ Fail("ValueError")
                          /\ loc' = [size |-> 0, stride |-> stride]
                     ELSE /\ loc' = [size |-> num, stride |-> stride,
                                     t |-> Linspace(num * ss[1], num),
                                     y0 |-> IF NotX0(x0) = "true" THEN FlowDefault(name, r) ELSE x0.v]
                          /\ pc' = "return"
                          /\ UNCHANGED <<out, outB, status>>

LorenzCall == FlowCall("lorenz")

RoesslerCall == FlowCall("roessler")

\* return (t[discard * sample::sample], odeint(f, x0, t)[discard * sample::sample])
FlowReturnIdx == SliceIdx(loc.size, par.discard * loc.stride, loc.stride)

FlowReturn ==
    /\ pc = "return" /\ fn \in {"lorenz", "roessler"}
    /\ IF loc.stride = 0
       THEN /\ Fail("ValueError")
            /\ UNCHANGED <<x, xB, loc>>
       ELSE LET res == Odeint(fn, par.c, loc.y0, loc.t)
                ys == res.ys
            IN  IF ~res.ok
                THEN /\ Fail("OdeintError")
                     /\ UNCHANGED <<x, xB, loc>>
                ELSE /\ x' = ys
                     /\ xB' = ys
                     /\ out' = [t |-> Take(loc.t, FlowReturnIdx), x |-> Take(ys, FlowReturnIdx)]
                     /\ outB' = out'
                     /\ loc' = loc @@ ("idx" :> FlowReturnIdx)
                     /\ pc' = "done"
                     /\ status' = "ok"
    /\ UNCHANGED <<fn, par, rnd, wr, i, rd>>

(***************************************************************************)
(* falpha.  A float of the result is <<"num", v>> or <<"nan", 0>>.         *)
(***************************************************************************)
NoCut == [given |-> FALSE, v |-> 0]

Cut(v) == [given |-> TRUE, v |-> v]

\* "if fl:" and "if fu:": None and 0.0 are both false.
Truthy(c) == c.given /\ c.v # 0

Alphas == {0, 1, 2}

LowCuts == {NoCut, Cut(0), Cut(300), Cut(600)}

HighCuts == {NoCut, Cut(200)}

Means == {0, 1000}

Vars == {1000, 4000}

\* fft.rfftfreq(length): k / length for k = 0 .. length // 2
RfftFreq(n) == [k \in 0 .. (n \div 2) |-> RDiv(k * Scale, n)]

\* freqs[1:] ** -alpha with P(0) = 0 inserted in front
PowerLaw(freqs, alpha) ==
    [k \in DOMAIN freqs |-> IF k = 0 THEN 0 ELSE FDiv(Scale, FPow(freqs[k], alpha))]

\* power[freqs < fl] = 0 and power[freqs > fu] = 0, each when the cutoff is set
Cutoffs(power, freqs, fl, fu) ==
    [k \in DOMAIN power |->
        IF (Truthy(fl) /\ freqs[k] < fl.v) \/ (Truthy(fu) /\ freqs[k] > fu.v)
        THEN 0 ELSE power[k]]

\* y = sqrt(power) * exp(1j * 2 pi r), and for an even length the last
\* component replaced by abs(y[-1] * sqrt(2)); a complex number is <<re, im>>.
Spectrum(power, r, n) ==
    LET y == [k \in DOMAIN power |->
                <<FMul(FSqrt(power[k]), FCos(FMul(TwoPi, r[k + 1]))),
                  FMul(FSqrt(power[k]), FSin(FMul(TwoPi, r[k + 1])))>>]
        last == ALen(power) - 1
        modulus == FSqrt(FMul(y[last][1], y[last][1]) + FMul(y[last][2], y[last][2]))
    IN  IF n % 2 = 0
        THEN [y EXCEPT ![last] = <<FMul(modulus, FSqrt(2 * Scale)), 0>>]
        ELSE y

RECURSIVE SumTo(_, _)
SumTo(f, k) == IF k < 0 THEN 0 ELSE f[k] + SumTo(f, k - 1)

ASum(a) == SumTo(a, ALen(a) - 1)

\* fft.irfft(y, n): the real sequence of n entries whose one-sided spectrum is y.
Irfft(y, n) ==
    [t \in 0 .. (n - 1) |->
        LET inner == [k \in 0 .. ((n - 1) \div 2) |->
                        IF k = 0 THEN y[0][1]
                        ELSE 2 * (FMul(y[k][1], FCos(RDiv(TwoPi * k * t, n)))
                                  - FMul(y[k][2], FSin(RDiv(TwoPi * k * t, n))))]
            nyq == IF n % 2 = 0 THEN (IF t % 2 = 0 THEN y[n \div 2][1] ELSE -y[n \div 2][1])
                   ELSE 0
        IN  RDiv(ASum(inner) + nyq, n)]

AMean(a) == RDiv(ASum(a), ALen(a))

\* np.std: the root of the mean squared deviation from the mean.
AStd(a) == FSqrt(RDiv(ASum([k \in DOMAIN a |-> FMul(a[k] - AMean(a), a[k] - AMean(a))]), ALen(a)))

\* mean + x - np.mean(x) for x = sqrt(var) * x / np.std(x); a zero standard
\* deviation makes every entry 0/0 or v/0, and the mean of those is nan.
Rescale(a, mean, var) ==
    IF AStd(a) = 0 THEN [k \in DOMAIN a |-> <<"nan", 0>>]
    ELSE LET z == [k \in DOMAIN a |-> FDiv(FMul(FSqrt(var), a[k]), AStd(a))]
         IN  [k \in DOMAIN a |-> <<"num", mean + z[k] - AMean(z)>>]

\* The lines of falpha that make the power spectrum.
FalphaCall ==
    /\ Idle
    /\ \E L \in Lengths, al \in Alphas, fl \in LowCuts, fu \in HighCuts,
          mean \in Means, var \in Vars :
         /\ fn' = "falpha"
         /\ par' = [length |-> L, alpha |-> al, fl |-> fl, fu |-> fu, mean |-> mean, var |-> var]
         /\ loc' = [size |-> L, stride |-> 1, freqs |-> RfftFreq(L),
                    power |-> Cutoffs(PowerLaw(RfftFreq(L), al), RfftFreq(L), fl, fu)]
    /\ pc' = "phases"
    /\ UNCHANGED <<rnd, x, xB, wr, i, rd, out, outB, status>>

\* The random phases, the spectrum and its inverse transform.
FalphaInvert ==
    /\ pc = "phases" /\ fn = "falpha"
    /\ \E r \in Draws(ALen(loc.freqs)) :
         /\ rnd' = r
         /\ x' = Irfft(Spectrum(loc.power, r, par.length), par.length)
         /\ xB' = x'
    /\ wr' = DOMAIN x'
    /\ pc' = "rescale"
    /\ UNCHANGED <<fn, par, loc, i, rd, out, outB, status>>

\* The rescaling and the return.
FalphaReturn ==
    /\ pc = "rescale" /\ fn = "falpha"
    /\ out' = Rescale(x, par.mean, par.var)
    /\ outB' = Rescale(xB, par.mean, par.var)
    /\ pc' = "done"
    /\ status' = "ok"
    /\ UNCHANGED <<fn, par, rnd, loc, x, xB, wr, i, rd>>

Init ==
    /\ pc = "idle"
    /\ fn = "none"
    /\ par = <<>>
    /\ rnd = <<>>
    /\ loc = <<>>
    /\ x = <<>>
    /\ xB = <<>>
    /\ wr = {}
    /\ i = 0
    /\ rd = {}
    /\ out = <<>>
    /\ outB = <<>>
    /\ status = "running"

Next ==
    \/ HenonCall
    \/ IkedaCall
    \/ HenonStep
    \/ IkedaStep
    \/ MapReturn
    \/ MGCall
    \/ MGStep
    \/ MGReturn
    \/ LorenzCall
    \/ RoesslerCall
    \/ FlowReturn
    \/ FalphaCall
    \/ FalphaInvert
    \/ FalphaReturn

Spec == Init /\ [][Next]_vars

(***************************************************************************)
(* What an invocation was given and what it gave back.                     *)
(***************************************************************************)
Done == pc = "done"

Returned == pc = "done" /\ status = "ok"

Maps == {"henon", "ikeda"}

Flows == {"lorenz", "roessler"}

Strided == Flows \cup {"mackey_glass"}

\* The dimension of the system's state.
Dim == IF fn \in Maps THEN 2 ELSE IF fn \in Flows THEN 3 ELSE par.n

X0Given == fn # "falpha" /\ par.x0.kind # "none"

\* The parameter sets the generators document as valid.
ValidParams ==
    /\ par.length >= 1
    /\ fn # "falpha" => par.discard >= 0 /\ (par.x0.kind = "none" \/ Len(par.x0.v) = Dim)
    /\ fn \in Strided => loc.stride >= 1

\* The number of entries of every sequence returned.
OutLengths == IF fn \in Flows THEN {ALen(out.t), ALen(out.x)} ELSE {ALen(out)}

\* C1: every call with valid parameters returns normally, and every
\* sequence it returns has exactly length entries.
C1_ExactLength == Done /\ ValidParams => status = "ok" /\ OutLengths = {par.length}

\* C2: henon and ikeda called with an explicit two-dimensional x0 and
\* discard = 0 return x0 itself as their first state.
C2_FirstStateIsX0 ==
    Returned /\ fn \in Maps /\ X0Given /\ Len(par.x0.v) = 2 /\ par.discard = 0
        => out[0] = par.x0.v

C2_Witness ==
    /\ Returned /\ fn = "henon" /\ par.discard = 0
    /\ par.x0 = Tup(<<0, 0>>) /\ out[0] = <<0, 0>>

\* C3: a call given an x0 whose size is not the dimension of the system
\* fails.
C3_MismatchFails == Done /\ X0Given /\ Len(par.x0.v) # Dim => status # "ok"

\* C4: two invocations with the same parameters and the same random draws
\* return the same trajectory.
C4_Deterministic == Returned => out = outB

\* C5: falpha fails when its cutoffs leave no frequency bin with power.
C5_EmptyPassbandFails ==
    Done /\ fn = "falpha"
         /\ (\E k \in DOMAIN loc.power : PowerLaw(loc.freqs, par.alpha)[k] # 0)
         /\ (\A k \in DOMAIN loc.power : loc.power[k] = 0)
        => status # "ok"

\* C6: lorenz, roessler and mackey_glass fail when the stride comes out
\* zero or negative.
C6_BadStrideFails == Done /\ fn \in Strided /\ loc.stride <= 0 => status # "ok"

\* Equality of the fractions p and q.
SameTime(p, q) == p[1] * q[2] = q[1] * p[2]

GridPoints == loc.stride * (par.length + par.discard)

\* C7 as stated: the grid of lorenz and roessler has stride * (length +
\* discard) points, the k-th returned time is (discard + k) * stride * step
\* and the k-th returned state is the integrator's at (discard + k) * stride.
C7_StepSpacedTimes ==
    Returned /\ fn \in Flows =>
        /\ ALen(loc.t) = GridPoints
        /\ \A k \in 0 .. (par.length - 1) :
             /\ SameTime(out.t[k], <<(par.discard + k) * loc.stride * par.step, 1>>)
             /\ out.x[k] = x[(par.discard + k) * loc.stride]

\* C7 as amended: the grid has N = stride * (length + discard) points that
\* span the closed interval from 0 to N * step, so that the k-th returned
\* time is (discard + k) * stride * N * step / (N - 1) (0 when N = 1), and
\* the k-th returned state is the integrator's at (discard + k) * stride.
C7_EndpointSpacedTimes ==
    Returned /\ fn \in Flows =>
        /\ ALen(loc.t) = GridPoints
        /\ DOMAIN out.t = 0 .. (par.length - 1)
        /\ \A k \in 0 .. (par.length - 1) :
             /\ SameTime(out.t[k],
                         IF GridPoints = 1 THEN <<0, 1>>
                         ELSE <<(par.discard + k) * loc.stride * GridPoints * par.step,
                                GridPoints - 1>>)
             /\ out.x[k] = x[(par.discard + k) * loc.stride]

C7_Witness ==
    /\ Returned /\ fn = "lorenz" /\ loc.stride = 3 /\ par.length = 2 /\ par.discard = 1
    /\ out.t[1] = <<6 * 90, 8>>

\* The n-th iterate of the Henon map from p.
RECURSIVE HenonIter(_, _, _, _)
HenonIter(p, a, b, n) == IF n = 0 THEN p ELSE HenonMap(HenonIter(p, a, b, n - 1), a, b)

\* The orbit of (0, 0) for a = 1.4 and b = 0.3.
HenonExample == <<<<0, 0>>, <<1000, 0>>, <<-400, 1000>>, <<1076, -400>>>>

\* C8: henon with an explicit x0 returns, in order, the iterates discard,
\* discard + 1, ... of the Henon map from x0; from (0, 0) with a = 1.4 and
\* b = 0.3 these are (0, 0), (1, 0), (-0.4, 1), (1.076, -0.4), ...
C8_HenonIterates ==
    Returned /\ fn = "henon" /\ X0Given /\ Len(par.x0.v) = 2 =>
        /\ DOMAIN out = 0 .. (par.length - 1)
        /\ \A k \in 0 .. (par.length - 1) :
             /\ out[k] = HenonIter(par.x0.v, par.c.a, par.c.b, par.discard + k)
             /\ k > 0 => out[k] = <<Scale - FMul(par.c.a, FMul(out[k - 1][1], out[k - 1][1]))
                                      + FMul(par.c.b, out[k - 1][2]), out[k - 1][1]>>
             /\ par.x0.v = <<0, 0>> /\ par.c = [a |-> 1400, b |-> 300]
                  /\ par.discard + k < Len(HenonExample)
                  => out[k] = HenonExample[par.discard + k + 1]

C8_Witness ==
    /\ Returned /\ fn = "henon" /\ par.x0 = Tup(<<0, 0>>) /\ par.discard = 2
    /\ par.length >= 2 /\ out[0] = <<-400, 1000>> /\ out[1] = <<1076, -400>>

\* The ratio the stride is made from, as numerator and denominator.
Ratio == IF fn \in Flows THEN <<par.sample, par.step>> ELSE <<par.n * par.sample, par.tau>>

\* C9 as stated: the stride is the ratio rounded to the nearest integer.
C9_StrideRounds ==
    pc # "idle" /\ fn \in Strided =>
        2 * Abs(loc.stride * Ratio[2] - Ratio[1]) <= Abs(Ratio[2])

\* C9 as amended: the stride is the ratio truncated toward zero, and
\* consecutive returned samples are that many steps of the grid apart.
C9_StrideTruncates ==
    pc # "idle" /\ fn \in Strided =>
        /\ Abs(loc.stride * Ratio[2]) <= Abs(Ratio[1])
        /\ Abs(Ratio[1]) < Abs(loc.stride * Ratio[2]) + Abs(Ratio[2])
        /\ loc.stride * Sgn(Ratio[1]) * Sgn(Ratio[2]) >= 0
        /\ Returned => \A k \in DOMAIN loc.idx :
                          k > 0 => loc.idx[k] - loc.idx[k - 1] = loc.stride

C9_Witness ==
    /\ Returned /\ fn = "lorenz" /\ par.sample = 19 /\ par.step = 10
    /\ loc.stride = 1 /\ par.length >= 2

\* C10: every step of the loop of mackey_glass reads only slots 0 .. i that
\* were assigned before it (i + 1 being the slot the step assigns).
C10_ReadsAssigned ==
    pc = "loop" /\ fn = "mackey_glass" =>
        \A k \in rd : k \in 0 .. (i - 1) /\ k \in wr


====
